---- MODULE Spec2Model ----
(***************************************************************************)
(* MossClient (src/src/client.py) driving one socket against the MOSS      *)
(* service, with the MossConfig (src/src/config.py) it sends from.         *)
(*                                                                         *)
(* Bytes are modelled as sequences of string tokens: a text chunk is the   *)
(* sequence of the pieces its f-string is built from (the newline, when    *)
(* the f-string has one, is its own last token "\n"); a file payload or a  *)
(* server reply is a sequence of one-character tokens.  The token "0xFF"   *)
(* stands for a byte that is not valid UTF-8.                              *)
(*                                                                         *)
(* The socket is the environment: connect, sendall and recv may succeed or *)
(* raise.  wire records, in order, every sendall that returned and every   *)
(* recv that returned on the client's socket.                              *)
(***************************************************************************)
EXTENDS Integers, Sequences, FiniteSets, TLC

VARIABLES
    given,      \* the MossConfig the caller built and hands to from_config
    present,    \* the paths that are regular files right now (file system)
    config,     \* MossClient.config
    sock,       \* MossClient._socket: "unconnected", "connected", "broken", "closed"
    target,     \* the (server, port) connect() was called with
    pc,         \* where the caller / send() stands
    hi,         \* which of the six header lines _send_headers writes next
    it,         \* the rest of the iterator the upload loop is consuming
    cur,        \* the path the upload loop holds (filename in _send_file)
    index,      \* file_index of the file being sent
    wire,       \* completed sendall / recv calls on the socket, in order
    runStart,   \* Len(wire) when the current (or last) send() was called
    outcome,    \* how the last send() ended: "none", "running", "returned", "raised"
    err,        \* the exception the last send() or constructor raised
    result,     \* the value the last send() returned
    scope,      \* the with-block: "none", "entered", "exited"
    dels,       \* how many times __del__ has run
    closes,     \* how many times _socket.close() has been called
    delRaised,  \* whether the last __del__ raised
    params,     \* a PathBasedParams (src/src/moss/config.py): its two lists
    adds,       \* the add_base_file / add_submission_file calls that returned
    calls       \* what each base_files() / submission_files() call yielded

vars == << given, present, config, sock, target, pc, hi, it, cur, index, wire,
           runStart, outcome, err, result, scope, dels, closes, delRaised,
           params, adds, calls >>

----------------------------------------------------------------------------
(* Bounds of the model *)

\* the longest list of submission files a configuration holds
MaxSubmissions == 2
\* how many times __del__ runs on one client (finalizer plus explicit calls)
MaxDel == 2
\* how many events one socket carries before the environment drops it
MaxWire == 15
\* how many files the environment removes during one behaviour
MaxUnlinks == 1
\* how many times base_files() / submission_files() are called on one object
MaxCalls == 3
\* how many add_base_file / add_submission_file calls one object receives
MaxAdds == 3

----------------------------------------------------------------------------
(* Program constants *)

DefaultServer == "moss.stanford.edu"
DefaultPort == "7690"
DefaultLanguage == "c"
DefaultMaxMatchesDisplayed == 250
DefaultMaxIgnoreThreshold == 10
NumHeaders == 6

None == "None"
\* a client whose config field is not set, whose socket was given no address,
\* and a send() without a return value
NoConfig == [unset |-> TRUE]
NoAddress == << None, None >>
NoValue == << None >>
NoErr == [type |-> "none", arg |-> ""]

----------------------------------------------------------------------------
(* Text: str.strip, str.lower, bytes.decode *)

InvalidByte == "0xFF"

IsSpace(c) == c \in {" ", "\n", "\t", "\r"}

LowerChar(c) ==
    CASE c = "N" -> "n"
      [] c = "O" -> "o"
      [] c = "K" -> "k"
      [] OTHER -> c

\* str.lower()
Lower(s) == [i \in 1..Len(s) |-> LowerChar(s[i])]

RECURSIVE LStrip(_)
LStrip(s) == IF s # <<>> /\ IsSpace(Head(s)) THEN LStrip(Tail(s)) ELSE s

RECURSIVE RStrip(_)
RStrip(s) ==
    IF s # <<>> /\ IsSpace(s[Len(s)]) THEN RStrip(SubSeq(s, 1, Len(s) - 1)) ELSE s

\* str.strip()
Strip(s) == RStrip(LStrip(s))

\* bytes.decode() raises UnicodeDecodeError on a byte that is not UTF-8
Decodable(bytes) == \A i \in 1..Len(bytes) : bytes[i] # InvalidByte

\* the str bytes.decode() returns, for decodable bytes
Decode(bytes) == bytes

\* a response handed on without .strip()
ResponseStrUntrimmed(bytes) == Decode(bytes)

\* _read_server_response_str's value for the bytes recv returned
ResponseStr(bytes) == Strip(Decode(bytes))

\* a test that forgets .lower()
IsRejectionCaseSensitive(reply) == reply = <<"n", "o">>

\* a test that also takes an empty reply for a rejection
IsRejectionOrEmpty(reply) == reply = <<>> \/ Lower(reply) = <<"n", "o">>

\* the test of _send_headers on the header reply
IsRejection(reply) == Lower(reply) = <<"n", "o">>

----------------------------------------------------------------------------
(* The file system and the configurations *)

BasePath == "base.c"
SubPath(i) == "s" \o ToString(i) \o ".c"

Paths == {BasePath} \cup {SubPath(i) : i \in 1..MaxSubmissions}

\* what open(filename, "rb").read() returns: s1.c is empty, s2.c is one
\* newline, s3.c two bytes, ...
FileBytes(p) ==
    IF p = BasePath
    THEN <<"q", "\n", "q">>
    ELSE LET n == CHOOSE i \in 1..MaxSubmissions : SubPath(i) = p
         IN  [j \in 1..(n - 1) |-> IF j = 1 THEN "\n" ELSE "x"]

\* the scalar fields of a MossConfig, with the file lists of the profile
Profiles ==
    { [ user_id |-> "12345", server |-> DefaultServer, port |-> DefaultPort,
        comment |-> "2026-11-04 01:00:00", language |-> DefaultLanguage,
        use_directory_mode |-> FALSE, use_experimental_mode |-> FALSE,
        max_matches_displayed |-> DefaultMaxMatchesDisplayed,
        max_ignore_threshold |-> DefaultMaxIgnoreThreshold,
        base_globs |-> <<>>, base_files |-> <<>>,
        submission_globs |-> <<>> ],
      [ user_id |-> "430246052", server |-> DefaultServer, port |-> DefaultPort,
        comment |-> "test sample  glob", language |-> "python",
        use_directory_mode |-> TRUE, use_experimental_mode |-> FALSE,
        max_matches_displayed |-> 100,
        max_ignore_threshold |-> 3,
        base_globs |-> <<>>, base_files |-> <<BasePath>>,
        submission_globs |-> <<>> ],
      [ user_id |-> "7", server |-> "localhost", port |-> "7691",
        comment |-> "", language |-> "java",
        use_directory_mode |-> FALSE, use_experimental_mode |-> TRUE,
        max_matches_displayed |-> DefaultMaxMatchesDisplayed,
        max_ignore_threshold |-> DefaultMaxIgnoreThreshold,
        base_globs |-> <<>>, base_files |-> <<BasePath>>,
        submission_globs |-> <<>> ] }

\* a profile with its first n submission files added by add_submission_file
WithSubmissions(p, n) ==
    [ user_id |-> p.user_id, server |-> p.server, port |-> p.port,
      comment |-> p.comment, language |-> p.language,
      use_directory_mode |-> p.use_directory_mode,
      use_experimental_mode |-> p.use_experimental_mode,
      max_matches_displayed |-> p.max_matches_displayed,
      max_ignore_threshold |-> p.max_ignore_threshold,
      base_globs |-> p.base_globs, base_files |-> p.base_files,
      submission_globs |-> p.submission_globs,
      submission_files |-> [i \in 1..n |-> SubPath(i)] ]

Configs == { WithSubmissions(p, n) : p \in Profiles, n \in 0..MaxSubmissions }

\* MossConfig(user_id): every other field at its default, no files
MossConfig(user_id) ==
    [ user_id |-> user_id, server |-> DefaultServer, port |-> DefaultPort,
      comment |-> "2026-11-04 01:00:00", language |-> DefaultLanguage,
      use_directory_mode |-> FALSE, use_experimental_mode |-> FALSE,
      max_matches_displayed |-> DefaultMaxMatchesDisplayed,
      max_ignore_threshold |-> DefaultMaxIgnoreThreshold,
      base_globs |-> <<>>, base_files |-> <<>>,
      submission_globs |-> <<>>, submission_files |-> <<>> ]

\* the working directory (the caller's home as well), and a path that exists
\* and is no regular file
Cwd == "/work/"
DirPath == "docs"

\* the relative paths the caller passes to add_base_file / add_submission_file
AddInputs == {BasePath, SubPath(1), DirPath}
\* the patterns the caller passes with glob=True
AddGlobs == {"s*.c", "~/s*.c"}

\* _expand_file: expanduser(expandvars(file)); only a leading ~ is expanded
ExpandFile(file) == IF file = "~/s*.c" THEN Cwd \o "s*.c" ELSE file

\* _resolve_file: abspath(_expand_file(file)) of a relative path
ResolveFile(file) == Cwd \o ExpandFile(file)

\* path.isfile and path.exists of a path, relative to Cwd or absolute
PathIsFile(p, files) == p \in files \/ \E q \in files : p = ResolveFile(q)
PathExists(p, files) == PathIsFile(p, files) \/ PathIsFile(p, {DirPath})

\* iglob(pattern): the paths the pattern matches, in listing order; an
\* absolute pattern yields absolute paths
IGlob(pattern, files) ==
    IF pattern = Cwd \o "s*.c"
    THEN SelectSeq([i \in 1..MaxSubmissions |-> ResolveFile(SubPath(i))],
                   LAMBDA p : PathIsFile(p, files))
    ELSE IF pattern = "s*.c"
    THEN SelectSeq([i \in 1..MaxSubmissions |-> SubPath(i)], LAMBDA p : p \in files)
    ELSE IF pattern = "*.c"
    THEN SelectSeq(<<BasePath>> \o [i \in 1..MaxSubmissions |-> SubPath(i)],
                   LAMBDA p : p \in files)
    ELSE <<>>

RECURSIVE Chain(_, _)
\* chain(*(iglob(g) for g in globs))
Chain(globs, files) ==
    IF globs = <<>> THEN <<>>
    ELSE IGlob(Head(globs), files) \o Chain(Tail(globs), files)

\* the sequence base_files() filters: the globs' matches, then the files
BaseCandidates(c, files) == Chain(c.base_globs, files) \o c.base_files

\* a submission_files() that puts the added files before the globs' matches
SubmissionCandidatesFilesFirst(c, files) ==
    c.submission_files \o Chain(c.submission_globs, files)

\* the sequence submission_files() filters
SubmissionCandidates(c, files) == Chain(c.submission_globs, files) \o c.submission_files

RECURSIVE DropMissing(_, _)
\* filter(path.isfile, ...) advancing: skip what is not a regular file
DropMissing(s, files) ==
    IF s # <<>> /\ ~PathIsFile(Head(s), files) THEN DropMissing(Tail(s), files) ELSE s

----------------------------------------------------------------------------
(* What the client writes *)

\* a flag formatted as the bool it is
FormatFlagAsBool(b) == ToString(b)

\* f"{1 if flag else 0}"
FormatFlag(b) == ToString(IF b THEN 1 ELSE 0)

\* the six header lines of _send_headers, in the order it writes them
HeaderLines(c) ==
    << <<"moss", " ", c.user_id, "\n">>,
       <<"directory", " ", FormatFlag(c.use_directory_mode), "\n">>,
       <<"X", " ", FormatFlag(c.use_experimental_mode), "\n">>,
       <<"maxmatches", " ", ToString(c.max_ignore_threshold), "\n">>,
       <<"show", " ", ToString(c.max_matches_displayed), "\n">>,
       <<"language", " ", c.language, "\n">> >>

\* a framing line that counts a terminator into the length
FrameLineCountsTerminator(c, file_index, contents) ==
    <<"file", " ", ToString(file_index), " ", c.language, " ",
      ToString(Len(contents) + 1), " ", "file_" \o ToString(file_index)>>

\* the framing line of _send_file
FrameLine(c, file_index, contents) ==
    <<"file", " ", ToString(file_index), " ", c.language, " ",
      ToString(Len(contents)), " ", "file_" \o ToString(file_index)>>

\* a query line without the reserved field
QueryLineNoReserved(c) == <<"query", " ", c.comment, "\n">>

\* the line of _query_server
QueryLine(c) == <<"query", " ", "0", " ", c.comment, "\n">>

\* the line of __del__
EndLine == <<"end", "\n">>

Sent(site, data) == [op |-> "send", site |-> site, data |-> data]
Received(site, data) == [op |-> "recv", site |-> site, data |-> data]

\* what recv may return after the language line
AckReplies ==
    { <<"n", "o">>, <<" ", "N", "o", "\r", "\n">>, <<"o", "k", "\n">>, <<>>,
      <<"n", " ", "o">>, <<InvalidByte>> }

\* what recv may return after the query line
ResultReplies ==
    { <<"u", "r", "l", "\n">>, <<" ", "n", "o", " ">>, <<InvalidByte, "\n">> }

----------------------------------------------------------------------------
(* The state after nothing has been constructed *)

\* no MossClient has been constructed
NoClient ==
    /\ config = NoConfig
    /\ sock = "unconnected"
    /\ target = NoAddress
    /\ pc = "new"
    /\ hi = 0
    /\ it = <<>>
    /\ cur = None
    /\ index = 0
    /\ wire = <<>>
    /\ runStart = 0
    /\ outcome = "none"
    /\ err = NoErr
    /\ result = NoValue
    /\ scope = "none"
    /\ dels = 0
    /\ closes = 0
    /\ delRaised = FALSE

\* a PathBasedParams after __init__, and no call made on any configuration
NoBuilder ==
    /\ params = [base_files |-> <<>>, submission_files |-> <<>>]
    /\ adds = <<>>
    /\ calls = <<>>

Init ==
    /\ given \in Configs
    /\ present = Paths
    /\ NoClient
    /\ NoBuilder

clientVars == << config, sock, target, pc, hi, it, cur, index, wire, runStart,
                 outcome, err, result, scope, dels, closes, delRaised >>
loopVars == << hi, it, cur, index >>
cleanupVars == << scope, dels, closes, delRaised >>
builderVars == << params, adds, calls >>

----------------------------------------------------------------------------
(* Construction: __post_init__ and from_config *)

\* a constructor that catches the exception of connect and hands out the client
PostInitSwallowsConnectError(user_id, final) ==
    /\ pc = "new"
    /\ target' = << MossConfig(user_id).server, MossConfig(user_id).port >>
    /\ \/ /\ sock' = "connected"
          /\ config' = final
       \/ /\ sock' = "unconnected"
          /\ config' = MossConfig(user_id)
    /\ pc' = "idle"
    /\ err' = NoErr
    /\ UNCHANGED << builderVars, given, present, loopVars, wire, runStart, outcome, result,
                    cleanupVars >>

\* __post_init__: build MossConfig(_user_id), connect to its (server, port)
PostInit(user_id, final) ==
    /\ pc = "new"
    /\ target' = << MossConfig(user_id).server, MossConfig(user_id).port >>
    /\ \/ /\ sock' = "connected"
          /\ config' = final
          /\ pc' = "idle"
          /\ err' = NoErr
       \/ /\ sock' = "unconnected"
          /\ config' = MossConfig(user_id)
          /\ pc' = "dead"
          /\ err' = [type |-> "OSError", arg |-> "connect"]
    /\ UNCHANGED << builderVars, given, present, loopVars, wire, runStart, outcome, result,
                    cleanupVars >>

\* MossClient(user_id)
NewClient == PostInit(given.user_id, MossConfig(given.user_id))

\* MossClient.from_config(config)
FromConfig == PostInit(given.user_id, given)

----------------------------------------------------------------------------
(* send() *)

\* files pipelined right behind the language line, no read in between
AfterHeaderLinesPipelined == "base"

\* headers after which no reply is read
AfterHeaderLinesNoRead == "base"

\* send() calls its five steps in this order: what follows each of them
AfterHeaderLines == "ack"
AfterHeaders == "base"
AfterBaseFiles == "sub"
AfterSubmissionFiles == "query"
AfterQuery == "result"

\* an index that never advances
NextFileIndexStuck(i) == IF i = 0 THEN 1 ELSE i

\* enumerate(..., start=1): the index of the next submission file, from the
\* index of the one before it (0 before the first)
NextFileIndex(i) == i + 1

\* the iterator the step at p starts from: base_files() for the base loop,
\* submission_files() for the submission loop
IterFor(p, c, files) ==
    IF p = "base" THEN BaseCandidates(c, files)
    ELSE IF p = "sub" THEN SubmissionCandidates(c, files)
    ELSE <<>>

\* an exception leaves send(): its locals are gone, the caller has the error
Raise(type, arg) ==
    /\ pc' = "idle"
    /\ outcome' = "raised"
    /\ err' = [type |-> type, arg |-> arg]
    /\ hi' = 0
    /\ it' = <<>>
    /\ cur' = None
    /\ index' = 0

\* a sendall whose exception is caught and dropped where it is raised
SendFailsIgnored ==
    /\ sock' = IF sock = "connected" THEN "broken" ELSE sock
    /\ wire' = wire
    /\ UNCHANGED << pc, outcome, err, hi, it, cur, index >>

\* _socket.sendall(data) raising: a connected socket is lost by it
SendFails ==
    /\ sock' = IF sock = "connected" THEN "broken" ELSE sock
    /\ wire' = wire
    /\ Raise("OSError", "sendall")

\* _socket.sendall(data) returning
SendOk(site, data) ==
    /\ sock = "connected"
    /\ Len(wire) < MaxWire
    /\ wire' = Append(wire, Sent(site, data))
    /\ sock' = sock

\* the caller invokes send(): it does so while it holds the client, that is
\* before it leaves the with-block and before the finalizer has run
StartSend ==
    /\ pc = "idle"
    /\ scope # "exited"
    /\ dels = 0
    /\ pc' = "hdr"
    /\ hi' = 1
    /\ runStart' = Len(wire)
    /\ outcome' = "running"
    /\ err' = NoErr
    /\ result' = NoValue
    /\ UNCHANGED << builderVars, given, present, config, sock, target, it, cur, index, wire,
                    cleanupVars >>

\* _send_headers: one of the six sendall calls
WriteHeader ==
    /\ pc = "hdr"
    /\ \/ /\ SendOk("header", HeaderLines(config)[hi])
          /\ IF hi < NumHeaders
             THEN /\ hi' = hi + 1
                  /\ pc' = pc
             ELSE /\ hi' = 0
                  /\ pc' = AfterHeaderLines
          /\ it' = IterFor(pc', config, present)
          /\ UNCHANGED << cur, index, outcome, err >>
       \/ SendFails
    /\ UNCHANGED << builderVars, given, present, config, target, runStart, result, cleanupVars >>

\* _send_headers: the read after the language line, and its test
ReadAck ==
    /\ pc = "ack"
    /\ \/ /\ sock = "connected"
          /\ Len(wire) < MaxWire
          /\ \E bytes \in AckReplies :
                /\ wire' = Append(wire, Received("ack", bytes))
                /\ IF ~Decodable(bytes)
                   THEN Raise("UnicodeDecodeError", "ack")
                   ELSE IF IsRejection(ResponseStr(bytes))
                   THEN Raise("ValueError", config.language)
                   ELSE /\ pc' = AfterHeaders
                        /\ it' = IterFor(AfterHeaders, config, present)
                        /\ UNCHANGED << hi, cur, index, outcome, err >>
          /\ sock' = sock
       \/ /\ sock' = IF sock = "connected" THEN "broken" ELSE sock
          /\ wire' = wire
          /\ Raise("OSError", "recv")
    /\ UNCHANGED << builderVars, given, present, config, target, runStart, result, cleanupVars >>

\* _upload_base_files: the for loop asks base_files() for its next path
UploadBaseNext ==
    /\ pc = "base"
    /\ LET rest == DropMissing(it, present)
       IN  IF rest = <<>>
           THEN /\ pc' = AfterBaseFiles
                /\ it' = IterFor(AfterBaseFiles, config, present)
                /\ cur' = None
                /\ index' = 0
           ELSE /\ pc' = "base_frame"
                /\ it' = Tail(rest)
                /\ cur' = Head(rest)
                /\ index' = 0
    /\ UNCHANGED << builderVars, given, present, config, sock, target, hi, wire, runStart,
                    outcome, err, result, cleanupVars >>

\* _upload_submission_files: enumerate(submission_files(), start=1) advances
UploadSubmissionNext ==
    /\ pc = "sub"
    /\ LET rest == DropMissing(it, present)
       IN  IF rest = <<>>
           THEN /\ pc' = AfterSubmissionFiles
                /\ it' = IterFor(AfterSubmissionFiles, config, present)
                /\ cur' = None
                /\ index' = 0
           ELSE /\ pc' = "sub_frame"
                /\ it' = Tail(rest)
                /\ cur' = Head(rest)
                /\ index' = NextFileIndex(index)
    /\ UNCHANGED << builderVars, given, present, config, sock, target, hi, wire, runStart,
                    outcome, err, result, cleanupVars >>

\* a _send_file that writes the framing line before it opens the file
SendFileFrameBeforeOpen ==
    /\ pc \in {"base_frame", "sub_frame"}
    /\ IF cur \notin present
       THEN /\ sock = "connected"
            /\ Len(wire) < MaxWire
            /\ wire' = Append(wire, Sent(pc, FrameLine(config, index, <<>>)))
            /\ sock' = sock
            /\ Raise("FileNotFoundError", cur)
       ELSE \/ /\ SendOk(pc, FrameLine(config, index, FileBytes(cur)))
               /\ pc' = IF pc = "base_frame" THEN "base_payload" ELSE "sub_payload"
               /\ UNCHANGED << hi, it, cur, index, outcome, err >>
            \/ SendFails
    /\ UNCHANGED << builderVars, given, present, config, target, runStart, result, cleanupVars >>

\* _send_file: open, read, and the sendall of the framing line
SendFileFrame ==
    /\ pc \in {"base_frame", "sub_frame"}
    /\ IF cur \notin present
       THEN /\ Raise("FileNotFoundError", cur)
            /\ UNCHANGED << sock, wire >>
       ELSE \/ /\ SendOk(pc, FrameLine(config, index, FileBytes(cur)))
               /\ pc' = IF pc = "base_frame" THEN "base_payload" ELSE "sub_payload"
               /\ UNCHANGED << hi, it, cur, index, outcome, err >>
            \/ SendFails
    /\ UNCHANGED << builderVars, given, present, config, target, runStart, result, cleanupVars >>

\* _send_file: the sendall of the contents read before the framing line
SendFilePayload ==
    /\ pc \in {"base_payload", "sub_payload"}
    /\ \/ /\ SendOk(pc, FileBytes(cur))
          /\ pc' = IF pc = "base_payload" THEN "base" ELSE "sub"
          /\ cur' = None
          /\ UNCHANGED << hi, it, index, outcome, err >>
       \/ SendFails
    /\ UNCHANGED << builderVars, given, present, config, target, runStart, result, cleanupVars >>

\* _query_server
QueryServer ==
    /\ pc = "query"
    /\ \/ /\ SendOk("query", QueryLine(config))
          /\ pc' = AfterQuery
          /\ it' = IterFor(AfterQuery, config, present)
          /\ UNCHANGED << hi, cur, index, outcome, err >>
       \/ SendFails
    /\ UNCHANGED << builderVars, given, present, config, target, runStart, result, cleanupVars >>

\* send(): url = _read_server_response_str(); return url
ReadResult ==
    /\ pc = "result"
    /\ \/ /\ sock = "connected"
          /\ Len(wire) < MaxWire
          /\ \E bytes \in ResultReplies :
                /\ wire' = Append(wire, Received("result", bytes))
                /\ IF ~Decodable(bytes)
                   THEN /\ Raise("UnicodeDecodeError", "result")
                        /\ result' = NoValue
                   ELSE /\ pc' = "idle"
                        /\ outcome' = "returned"
                        /\ result' = ResponseStr(bytes)
                        /\ UNCHANGED << hi, it, cur, index, err >>
          /\ sock' = sock
       \/ /\ sock' = IF sock = "connected" THEN "broken" ELSE sock
          /\ wire' = wire
          /\ Raise("OSError", "recv")
          /\ result' = NoValue
    /\ UNCHANGED << builderVars, given, present, config, target, runStart, cleanupVars >>

----------------------------------------------------------------------------
(* The with-block and the finalizer *)

\* __enter__: return self
Enter ==
    /\ pc = "idle"
    /\ scope = "none"
    /\ outcome = "none"
    /\ dels = 0
    /\ scope' = "entered"
    /\ UNCHANGED << builderVars, given, present, config, sock, target, pc, loopVars, wire,
                    runStart, outcome, err, result, dels, closes, delRaised >>

\* __exit__: `del self` unbinds the local name and nothing else
Exit ==
    /\ pc = "idle"
    /\ scope = "entered"
    /\ scope' = "exited"
    /\ UNCHANGED << builderVars, given, present, config, sock, target, pc, loopVars, wire,
                    runStart, outcome, err, result, dels, closes, delRaised >>

\* __del__: sendall("end\n"), then close().  Inside the with-block the caller
\* holds the client, so the finalizer runs before the block or after it
Del ==
    /\ pc \in {"idle", "dead"}
    /\ scope # "entered"
    /\ dels < MaxDel
    /\ dels' = dels + 1
    /\ \/ /\ sock = "connected"
          /\ Len(wire) < MaxWire
          /\ wire' = Append(wire, Sent("end", EndLine))
          /\ sock' = "closed"
          /\ closes' = closes + 1
          /\ delRaised' = FALSE
       \/ /\ sock' = IF sock = "connected" THEN "broken" ELSE sock
          /\ wire' = wire
          /\ closes' = closes
          /\ delRaised' = TRUE
    /\ UNCHANGED << builderVars, given, present, config, target, pc, loopVars, runStart,
                    outcome, err, result, scope >>

----------------------------------------------------------------------------
(* The environment *)

\* a file is removed from the file system while an upload loop runs (a
\* removal at any other moment shows as one before the loop's next step)
Unlink ==
    /\ pc \in {"base", "sub", "base_frame", "sub_frame"}
    /\ Cardinality(Paths \ present) < MaxUnlinks
    /\ \E p \in present : present' = present \ {p}
    /\ UNCHANGED << builderVars, given, clientVars >>

Next ==
    \/ NewClient
    \/ FromConfig
    \/ StartSend
    \/ WriteHeader
    \/ ReadAck
    \/ UploadBaseNext
    \/ UploadSubmissionNext
    \/ SendFileFrame
    \/ SendFilePayload
    \/ QueryServer
    \/ ReadResult
    \/ Enter
    \/ Exit
    \/ Del
    \/ Unlink

Spec == Init /\ [][Next]_vars

\* what a step of send() changes
sendVars == << pc, hi, it, cur, index, wire, sock, outcome, err >>

\* send() runs on one thread: a step of it that writes or that advances an
\* upload loop is taken once it is reached.  The two reads are recv(1024) on
\* a socket on which no timeout is set: they are taken when the service
\* answers or the connection fails, and nothing in the client ends them
SendFairness ==
    /\ WF_sendVars(WriteHeader)
    /\ WF_sendVars(UploadBaseNext)
    /\ WF_sendVars(UploadSubmissionNext)
    /\ WF_sendVars(SendFileFrame)
    /\ WF_sendVars(SendFilePayload)
    /\ WF_sendVars(QueryServer)

\* the configurations with a base file and no submission file
BlockingInit ==
    /\ given \in { c \in Configs : c.base_files # <<>> /\ c.submission_files = <<>> }
    /\ present = Paths
    /\ NoClient
    /\ NoBuilder

BlockingSpec == BlockingInit /\ [][Next]_vars /\ SendFairness

----------------------------------------------------------------------------
(* MossConfig.base_files() and submission_files(), called and consumed *)

\* configurations as add_base_file / add_submission_file leave them, with
\* globs and with individually added files
ListingConfigs ==
    LET c == MossConfig("12345")
        subs == [i \in 1..MaxSubmissions |-> SubPath(i)]
    IN  { c,
          [c EXCEPT !.base_files = <<BasePath>>, !.submission_files = subs],
          [c EXCEPT !.base_globs = <<"*.c">>, !.submission_globs = <<"s*.c">>],
          [c EXCEPT !.base_globs = <<"s*.c">>, !.base_files = <<BasePath>>,
                    !.submission_globs = <<"s*.c">>,
                    !.submission_files = <<SubPath(1)>>] }

\* what one call, consumed to its end, yields
Called(fn, files) == [fn |-> fn, files |-> files, at |-> Len(adds)]

\* a base_files() that keeps what its first call yielded
ListBaseFilesCached(c, files) ==
    IF \E i \in 1..Len(calls) : calls[i].fn = "base_files"
    THEN calls[CHOOSE i \in 1..Len(calls) : calls[i].fn = "base_files"].files
    ELSE SelectSeq(BaseCandidates(c, files), LAMBDA p : p \in files)

\* list(config.base_files()): the candidates that are regular files
ListBaseFiles(c, files) ==
    SelectSeq(BaseCandidates(c, files), LAMBDA p : PathIsFile(p, files))

\* list(config.submission_files())
ListSubmissionFiles(c, files) ==
    SelectSeq(SubmissionCandidates(c, files), LAMBDA p : PathIsFile(p, files))

CallBaseFiles ==
    /\ Len(calls) < MaxCalls
    /\ calls' = Append(calls, Called("base_files", ListBaseFiles(given, present)))
    /\ UNCHANGED << given, present, clientVars, params, adds >>

CallSubmissionFiles ==
    /\ Len(calls) < MaxCalls
    /\ calls' = Append(calls, Called("submission_files",
                                     ListSubmissionFiles(given, present)))
    /\ UNCHANGED << given, present, clientVars, params, adds >>

\* a file is removed between two calls
UnlinkBetweenCalls ==
    /\ Cardinality(Paths \ present) < MaxUnlinks
    /\ \E p \in present : present' = present \ {p}
    /\ UNCHANGED << given, clientVars, builderVars >>

ListingInit ==
    /\ given \in ListingConfigs
    /\ present = Paths
    /\ NoClient
    /\ NoBuilder

ListingNext ==
    \/ CallBaseFiles
    \/ CallSubmissionFiles
    \/ UnlinkBetweenCalls

ListingSpec == ListingInit /\ [][ListingNext]_vars

----------------------------------------------------------------------------
(* MossConfig built by add_base_file / add_submission_file, then listed *)

\* one add call on a MossConfig and how it ended
AddedTo(fn, file, glob, raised) ==
    [fn |-> fn, file |-> file, glob |-> glob, raised |-> raised]

\* what the two checks of a call without glob end in
AddFileOutcome(file, files) ==
    IF ~PathExists(ResolveFile(file), files) THEN "FileNotFoundError"
    ELSE IF ~PathIsFile(ResolveFile(file), files) THEN "ValueError"
    ELSE "none"

\* self.__base_files.append(base_path)
WithBaseFile(c, p) == [c EXCEPT !.base_files = Append(@, p)]

\* an add_submission_file whose append goes to the base list
WithSubmissionFileInBase(c, p) == [c EXCEPT !.base_files = Append(@, p)]

\* self.__submission_files.append(submission_path)
WithSubmissionFile(c, p) == [c EXCEPT !.submission_files = Append(@, p)]

\* the caller makes no add call once MaxAdds calls, adds and listings
\* together, were made on the configuration
MayAdd == Len(adds) + Len(calls) < MaxAdds

\* MossConfig.add_base_file(base_file, glob=glob)
AddBaseFile ==
    /\ MayAdd
    /\ \/ \E file \in AddInputs :
             /\ adds' = Append(adds, AddedTo("add_base_file", file, FALSE,
                                             AddFileOutcome(file, present)))
             /\ given' = IF AddFileOutcome(file, present) = "none"
                         THEN WithBaseFile(given, ResolveFile(file))
                         ELSE given
       \/ \E pattern \in AddGlobs :
             /\ adds' = Append(adds, AddedTo("add_base_file", pattern, TRUE, "none"))
             /\ given' = [given EXCEPT !.base_globs = Append(@, ExpandFile(pattern))]
    /\ UNCHANGED << present, clientVars, params, calls >>

\* MossConfig.add_submission_file(submission_file, glob=glob)
AddSubmissionFile ==
    /\ MayAdd
    /\ \/ \E file \in AddInputs :
             /\ adds' = Append(adds, AddedTo("add_submission_file", file, FALSE,
                                             AddFileOutcome(file, present)))
             /\ given' = IF AddFileOutcome(file, present) = "none"
                         THEN WithSubmissionFile(given, ResolveFile(file))
                         ELSE given
       \/ \E pattern \in AddGlobs :
             /\ adds' = Append(adds, AddedTo("add_submission_file", pattern, TRUE,
                                             "none"))
             /\ given' = [given EXCEPT
                            !.submission_globs = Append(@, ExpandFile(pattern))]
    /\ UNCHANGED << present, clientVars, params, calls >>

\* MossConfig("12345"), all files there or all but the base file
ConfigInit ==
    /\ given = MossConfig("12345")
    /\ present \in {Paths, Paths \ {BasePath}}
    /\ NoClient
    /\ NoBuilder

ConfigNext ==
    \/ AddBaseFile
    \/ AddSubmissionFile
    \/ CallBaseFiles
    \/ CallSubmissionFiles

ConfigSpec == ConfigInit /\ [][ConfigNext]_vars

----------------------------------------------------------------------------
(* PathBasedParams of src/src/moss/config.py *)

\* one add_base_file / add_submission_file call and how it ended
Added(fn, file, raised) == [fn |-> fn, file |-> file, raised |-> raised]

\* the checks both add methods make before they append
AddOutcome(file, files) ==
    IF ~PathExists(ResolveFile(file), files) THEN "FileNotFoundError"
    ELSE IF ~PathIsFile(ResolveFile(file), files) THEN "ValueError"
    ELSE "none"

\* PathBasedParams.add_base_file
ParamsAddBaseFile ==
    /\ Len(adds) < MaxAdds
    /\ \E file \in AddInputs :
          /\ adds' = Append(adds, Added("add_base_file", file,
                                        AddOutcome(file, present)))
          /\ params' = IF AddOutcome(file, present) = "none"
                        THEN [params EXCEPT
                                !.base_files = Append(@, ResolveFile(file))]
                        ELSE params
    /\ UNCHANGED << given, present, clientVars, calls >>

\* PathBasedParams.add_submission_file: its append goes to __base_files
ParamsAddSubmissionFile ==
    /\ Len(adds) < MaxAdds
    /\ \E file \in AddInputs :
          /\ adds' = Append(adds, Added("add_submission_file", file,
                                        AddOutcome(file, present)))
          /\ params' = IF AddOutcome(file, present) = "none"
                        THEN [params EXCEPT
                                !.base_files = Append(@, ResolveFile(file))]
                        ELSE params
    /\ UNCHANGED << given, present, clientVars, calls >>

\* list(params.base_files())
ParamsBaseFiles ==
    /\ Len(calls) < MaxCalls
    /\ calls' = Append(calls, Called("base_files", params.base_files))
    /\ UNCHANGED << given, present, clientVars, params, adds >>

\* list(params.submission_files())
ParamsSubmissionFiles ==
    /\ Len(calls) < MaxCalls
    /\ calls' = Append(calls, Called("submission_files", params.submission_files))
    /\ UNCHANGED << given, present, clientVars, params, adds >>

\* the files that exist when the object is built: all, or all but the base file
ParamsInit ==
    /\ given = MossConfig("12345")
    /\ present \in {Paths, Paths \ {BasePath}}
    /\ NoClient
    /\ NoBuilder

ParamsNext ==
    \/ ParamsAddBaseFile
    \/ ParamsAddSubmissionFile
    \/ ParamsBaseFiles
    \/ ParamsSubmissionFiles

ParamsSpec == ParamsInit /\ [][ParamsNext]_vars

----------------------------------------------------------------------------
(* Reading the wire *)

\* the events of the current send(), or of the last one: what the socket
\* carried since send() was called, the finalizer's line left out
RunEvents ==
    SelectSeq(SubSeq(wire, runStart + 1, Len(wire)), LAMBDA e : e.site # "end")

IsFrame(e) == e.site \in {"base_frame", "sub_frame"}
IsPayload(e) == e.site \in {"base_payload", "sub_payload"}

\* the place of an event's kind in the protocol order
Rank(e) ==
    CASE e.site = "header" -> 1
      [] e.site = "ack" -> 2
      [] e.site \in {"base_frame", "base_payload"} -> 3
      [] e.site \in {"sub_frame", "sub_payload"} -> 4
      [] e.site = "query" -> 5
      [] e.site = "result" -> 6
      [] OTHER -> 7

CountSite(r, site) == Len(SelectSeq(r, LAMBDA e : e.site = site))

----------------------------------------------------------------------------
(* Claims *)

\* C1: in every run of send() the wire events come in the order six header
\* lines, one header-ack read, the base-file records, the submission-file
\* records, the query line, the result read: nothing but header lines fills
\* the first six places, the ack read is the seventh event, no file record or
\* query line comes without it, no base-file record follows a submission-file
\* record, no file record follows the query line, and the reads are exactly
\* the ack and the result.
C1_WireOrder ==
    LET r == RunEvents
    IN  /\ \A i, j \in 1..Len(r) : i < j => Rank(r[i]) <= Rank(r[j])
        /\ \A i \in 1..Len(r) : (r[i].site = "header") <=> (i <= 6)
        /\ \A i \in 1..Len(r) : (r[i].site = "ack") <=> (i = 7)
        /\ \A i \in 1..Len(r) : (r[i].op = "recv") <=> (r[i].site \in {"ack", "result"})
        /\ \A i \in 1..Len(r) : Rank(r[i]) <= 6
        /\ CountSite(r, "query") <= 1
        /\ CountSite(r, "result") <= 1
        /\ CountSite(r, "result") = 1 => CountSite(r, "query") = 1

\* a send() that returned after uploading a base file and two submission files
C1_Witness ==
    /\ outcome = "returned"
    /\ CountSite(RunEvents, "base_payload") = 1
    /\ CountSite(RunEvents, "sub_payload") = 2
    /\ RunEvents[Len(RunEvents)].site = "result"

\* C2: for every configuration send() writes exactly the six header lines
\* moss <identity>, directory <d>, X <x>, maxmatches <maxIgnoreThreshold>,
\* show <maxMatchesDisplayed>, language <language>, in that order and each once,
\* d being 1 iff directory mode is set and x being 1 iff experimental mode is.
C2_HeaderLines ==
    pc \notin {"new", "dead"} =>
        LET expected ==
                << <<"moss", " ", config.user_id, "\n">>,
                   <<"directory", " ",
                     IF config.use_directory_mode THEN "1" ELSE "0", "\n">>,
                   <<"X", " ",
                     IF config.use_experimental_mode THEN "1" ELSE "0", "\n">>,
                   <<"maxmatches", " ", ToString(config.max_ignore_threshold), "\n">>,
                   <<"show", " ", ToString(config.max_matches_displayed), "\n">>,
                   <<"language", " ", config.language, "\n">> >>
            r == RunEvents
            hdrs == SelectSeq(r, LAMBDA e : e.site = "header")
        IN  /\ Len(hdrs) <= 6
            /\ \A i \in 1..Len(hdrs) : hdrs[i] = [op |-> "send", site |-> "header",
                                                  data |-> expected[i]]
            /\ Len(hdrs) < Len(r) => Len(hdrs) = 6
            /\ pc = "hdr" => hi = Len(hdrs) + 1

\* all six lines written, for a configuration in directory mode and one in
\* experimental mode
C2_Witness ==
    /\ pc = "ack"
    /\ Len(RunEvents) = 6
    /\ config.use_directory_mode # config.use_experimental_mode
    /\ config.max_ignore_threshold # config.max_matches_displayed

\* C3: every base file is sent with index 0, and the k-th submission file in
\* iteration order is sent with index k (1, 2, 3, ...), whatever the two
\* sequences are, empty ones included.
C3_FileIndices ==
    LET r == RunEvents
        subs == SelectSeq(r, LAMBDA e : e.site = "sub_frame")
    IN  /\ \A i \in 1..Len(r) :
                r[i].site = "base_frame" => r[i].data[3] = "0"
        /\ \A k \in 1..Len(subs) : subs[k].data[3] = ToString(k)
        /\ pc \in {"sub_frame", "sub_payload"} => index >= 1
        /\ pc \in {"base_frame", "base_payload"} => index = 0

\* a base file and two submission files framed in one send()
C3_Witness ==
    /\ CountSite(RunEvents, "base_frame") = 1
    /\ CountSite(RunEvents, "sub_frame") = 2

\* C4: the byteLength field of a file's framing line is the length L of its
\* payload, and what the socket carries right after the framing line is the
\* payload, L bytes read from a file, with nothing in between.
C4_FrameLengthAndPayload ==
    /\ \A i \in 1..Len(wire) :
          /\ IsPayload(wire[i]) =>
                /\ i > 1
                /\ IsFrame(wire[i - 1])
                /\ Rank(wire[i - 1]) = Rank(wire[i])
                /\ wire[i - 1].data[7] = ToString(Len(wire[i].data))
                /\ \E p \in Paths : wire[i].data = FileBytes(p)
          /\ (IsFrame(wire[i]) /\ i < Len(wire)) => IsPayload(wire[i + 1])
    /\ pc \in {"base_payload", "sub_payload"} =>
          /\ IsFrame(wire[Len(wire)])
          /\ wire[Len(wire)].data[7] = ToString(Len(FileBytes(cur)))

\* an empty payload and a three-byte payload on one socket
C4_Witness ==
    /\ \E i \in 1..Len(wire) : IsPayload(wire[i]) /\ Len(wire[i].data) = 0
    /\ \E i \in 1..Len(wire) : IsPayload(wire[i]) /\ Len(wire[i].data) = 3

\* C5: every command line the client writes (header line, file framing line,
\* query line) ends with a newline, so a payload starts only after the newline
\* of its framing line.  The framing line of _send_file has none.
C5_EveryLineNewlineTerminated ==
    \A i \in 1..Len(wire) :
        (wire[i].op = "send" /\ ~IsPayload(wire[i])) =>
            wire[i].data[Len(wire[i].data)] = "\n"

\* a reply that, trimmed and lower-cased, is "no"
IsNoReply(bytes) == Decodable(bytes) /\ Lower(Strip(bytes)) = <<"n", "o">>

C8_QueryLine ==
    pc \notin {"new", "dead"} =>
        LET r == RunEvents
        IN  /\ CountSite(r, "query") <= 1
            /\ (pc = "result" \/ outcome = "returned") => CountSite(r, "query") = 1
            /\ \A i \in 1..Len(r) :
                  /\ r[i].site = "query" =>
                        /\ r[i] = [op |-> "send", site |-> "query",
                                   data |-> <<"query", " ", "0", " ", config.comment, "\n">>]
                        /\ \A j \in 1..Len(r) :
                              (IsFrame(r[j]) \/ IsPayload(r[j])) => j < i
                        /\ \A j \in 1..Len(r) : r[j].op = "recv" /\ j > i => j = i + 1
                  /\ r[i].site = "result" => (i > 1 /\ r[i - 1].site = "query")

\* a send() returned after two submission files, with a comment that holds
\* whitespace
C8_Witness ==
    /\ outcome = "returned"
    /\ config.comment = "test sample  glob"
    /\ CountSite(RunEvents, "sub_payload") = 2
    /\ CountSite(RunEvents, "query") = 1

\* C9: the value a successful send() returns is the decoded, whitespace-trimmed
\* text of the one read made after the query line, not parsed or checked and
\* not the header reply; a send() that did not return has no value.
C9_ResultIsTrimmedRead ==
    /\ outcome = "returned" =>
          LET r == RunEvents
              last == r[Len(r)]
          IN  /\ last = [op |-> "recv", site |-> "result", data |-> last.data]
              /\ CountSite(r, "result") = 1
              /\ r[Len(r) - 1].site = "query"
              /\ result = Strip(last.data)
              /\ result # <<>> => ~IsSpace(result[1]) /\ ~IsSpace(result[Len(result)])
    /\ outcome # "returned" => result = NoValue

\* send() returned "no": the result read was " no ", after some header reply
\* that was not
C9_Witness ==
    /\ outcome = "returned"
    /\ result = <<"n", "o">>
    /\ RunEvents[7].data = <<"o", "k", "\n">>

\* C10: closing is idempotent: the cleanup run on a client that is already
\* closed, or on one whose connect failed, does not raise (and writes nothing).
C10_CleanupIdempotent ==
    (sock = "closed" \/ pc = "dead") => ~delRaised

\* C11: when the with-block is left, normally or by an error of send(), the
\* connection is closed at that point and has been closed exactly once.
\* __exit__ closes nothing.
C11_ClosedOnScopeExit ==
    scope = "exited" => (sock = "closed" /\ closes = 1)

\* C12: after a "no" reply to the language line the client writes nothing more
\* on the connection while that send() is the last one started, not even the
\* end line.  The finalizer writes end\n all the same.
C12_NothingWrittenAfterRejection ==
    \A i \in 1..Len(wire) :
        (i > runStart /\ wire[i].site = "ack" /\ IsNoReply(wire[i].data)) =>
            i = Len(wire)

C14_ConnectsToConfiguredServer ==
    pc \notin {"new", "dead"} => target = << config.server, config.port >>

\* C15: when the k-th file of the upload order cannot be opened, send() ends
\* with a FileNotFoundError that names that file's path; the framing line of
\* that file is not written (every framing line on the wire has its payload),
\* no query line and no later record is written, nothing is read, and the
\* records of the files before it are on the wire: one for each of the k - 1
\* files before it, less those that were gone when the iterator came to them.
C15_OpenFailureStopsSend ==
    (outcome = "raised" /\ err.type = "FileNotFoundError") =>
        LET r == RunEvents
            order == config.base_files \o config.submission_files
            frames == Len(SelectSeq(r, IsFrame))
            payloads == Len(SelectSeq(r, IsPayload))
            gone == Cardinality(Paths \ present)
        IN  /\ err.arg \in Paths \ present
            /\ \E k \in 1..Len(order) :
                  /\ order[k] = err.arg
                  /\ frames <= k - 1
                  /\ frames >= k - gone
            /\ frames = payloads
            /\ Len(r) = 7 + frames + payloads
            /\ \A i \in 1..Len(r) : i > 7 => r[i].op = "send"
            /\ CountSite(r, "query") = 0
            /\ CountSite(r, "result") = 0
            /\ pc = "idle"
            /\ result = NoValue

\* the second submission file was removed after the base file and the first
\* submission file had been sent
C15_Witness ==
    /\ outcome = "raised"
    /\ err = [type |-> "FileNotFoundError", arg |-> SubPath(2)]
    /\ CountSite(RunEvents, "base_payload") = 1
    /\ CountSite(RunEvents, "sub_payload") = 1

\* C16: a failure in any phase of send() ends it there: a write or a read that
\* loses the socket, a file that cannot be opened and a reply that cannot be
\* decoded each leave send() raised with that error; a raised send() has no
\* value, and until the caller starts another send() its error stays and no
\* further step of it reaches the wire.
C16_FailureAborts ==
    [][ /\ (outcome = "running" /\ sock = "connected" /\ sock' = "broken") =>
              /\ outcome' = "raised"
              /\ err'.type = "OSError"
              /\ wire' = wire
        /\ (outcome = "running" /\ pc \in {"base_frame", "sub_frame"}
                /\ cur \notin present /\ present' = present) =>
              /\ outcome' = "raised"
              /\ err' = [type |-> "FileNotFoundError", arg |-> cur]
              /\ wire' = wire
        /\ (outcome = "running" /\ Len(wire') > Len(wire)
                /\ wire'[Len(wire')].op = "recv"
                /\ ~Decodable(wire'[Len(wire')].data)) =>
              /\ outcome' = "raised"
              /\ err'.type = "UnicodeDecodeError"
        /\ outcome' = "raised" =>
              /\ result' = NoValue
              /\ err' # NoErr
              /\ pc' = "idle"
              /\ it' = <<>>
        /\ outcome = "raised" =>
              \/ /\ outcome' = "raised"
                 /\ err' = err
                 /\ RunEvents' = RunEvents
              \/ /\ outcome' = "running"
                 /\ pc' = "hdr"
                 /\ runStart' = Len(wire)
                 /\ wire' = wire ]_vars

\* the result read lost the socket: every step before it was done, the error
\* is with the caller, and the finalizer that ran later changed none of it
C16_Witness ==
    /\ outcome = "raised"
    /\ err = [type |-> "OSError", arg |-> "recv"]
    /\ RunEvents # <<>>
    /\ RunEvents[Len(RunEvents)].site = "query"
    /\ sock = "broken"
    /\ dels = 1

\* C17: every call of base_files() or submission_files() is a fresh pass: it
\* yields, in the order of the configuration (glob matches in listing order,
\* then the added files in insertion order), exactly the configured paths that
\* are regular files when it is consumed, whatever earlier calls yielded; the
\* earlier results are left as they were.
C17_ListingRefilters ==
    [][ calls' # calls =>
            LET k == Len(calls')
                c == calls'[k]
                globs == IF c.fn = "base_files" THEN given.base_globs
                         ELSE given.submission_globs
                added == IF c.fn = "base_files" THEN given.base_files
                         ELSE given.submission_files
                configured == Chain(globs, present) \o added
            IN  /\ k = Len(calls) + 1
                /\ SubSeq(calls', 1, k - 1) = calls
                /\ c.fn \in {"base_files", "submission_files"}
                /\ c.files = SelectSeq(configured, LAMBDA p : p \in present)
                /\ \A i \in 1..Len(c.files) : c.files[i] \in present ]_vars

\* two calls of the same method with a removal in between: the removed path is
\* in the first result and not in the second, which still has what is left
C17_Witness ==
    \E i, j \in 1..Len(calls) :
        /\ i < j
        /\ calls[i].fn = calls[j].fn
        /\ calls[j].files # <<>>
        /\ \E m \in 1..Len(calls[i].files) :
              /\ calls[i].files[m] \notin present
              /\ \A n \in 1..Len(calls[j].files) :
                    calls[j].files[n] # calls[i].files[m]

\* C18: what submission_files() of a PathBasedParams yields is exactly the
\* (resolved) paths that add_submission_file accepted before the call, in
\* insertion order, and what base_files() yields is exactly those that
\* add_base_file accepted.  add_submission_file appends to the base list.
C18_PathListsSeparate ==
    \A i \in 1..Len(calls) :
        LET accepted(fn) ==
                SelectSeq(SubSeq(adds, 1, calls[i].at),
                          LAMBDA a : a.fn = fn /\ a.raised = "none")
            paths(s) == [n \in 1..Len(s) |-> ResolveFile(s[n].file)]
        IN  /\ calls[i].fn = "submission_files" =>
                  calls[i].files = paths(accepted("add_submission_file"))
            /\ calls[i].fn = "base_files" =>
                  calls[i].files = paths(accepted("add_base_file"))

\* C19: one send() reads at most twice: each read comes right after the
\* language line or right after the query line, each of these two lines is
\* followed by at most one read and by nothing else, so no read lies between
\* the ack read and the query line; a send() that returned has read exactly
\* twice.
C19_AtMostTwoReads ==
    LET r == RunEvents
        IsLanguageLine(e) == e.site = "header" /\ e.data[1] = "language"
        IsQueryLine(e) == e.site = "query"
        reads == { i \in 1..Len(r) : r[i].op = "recv" }
    IN  /\ Cardinality(reads) <= 2
        /\ \A i \in reads :
              /\ i > 1
              /\ r[i - 1].op = "send"
              /\ IsLanguageLine(r[i - 1]) \/ IsQueryLine(r[i - 1])
        /\ \A i \in 1..Len(r) :
              (r[i].op = "send" /\ (IsLanguageLine(r[i]) \/ IsQueryLine(r[i]))
                  /\ i < Len(r)) => r[i + 1].op = "recv"
        /\ \A i, j \in reads : i < j =>
              /\ IsLanguageLine(r[i - 1])
              /\ IsQueryLine(r[j - 1])
              /\ \A k \in (i + 1)..(j - 1) : r[k].op = "send"
        /\ outcome = "returned" => Cardinality(reads) = 2

\* a send() that returned after three file records between its two reads
C19_Witness ==
    /\ outcome = "returned"
    /\ Len(RunEvents) = 15
    /\ RunEvents[7].op = "recv"
    /\ RunEvents[15].op = "recv"
    /\ \A i \in 8..14 : RunEvents[i].op = "send"

\* C20: whatever send() calls are made on one client, the moss line that opens
\* the header phase is written at most once on its connection.  A second
\* send() writes the header lines again.
C20_HeaderPhaseOnce ==
    Len(SelectSeq(wire, LAMBDA e : e.site = "header" /\ e.data[1] = "moss")) <= 1

\* C21: the end line is written only by the cleanup, never while a send() is
\* running; a cleanup that ran after send() returned leaves the returned value
\* what the result read gave; and when the write of end fails the connection
\* is closed all the same.  __del__ skips close() when its sendall raises.
C21_EndFailureStillCloses ==
    /\ outcome = "running" =>
          \A i \in 1..Len(wire) : i > runStart => wire[i].site # "end"
    /\ (dels > 0 /\ outcome = "returned") =>
          result = Strip(RunEvents[Len(RunEvents)].data)
    /\ (delRaised /\ outcome = "returned") => sock = "closed"

\* C22: a send() that waits in one of its two reads does not wait forever:
\* the read ends, by a reply or by an error.  No timeout is set on the
\* socket, so a read the service never answers never ends.
C22_ReadsExpire ==
    (pc \in {"ack", "result"}) ~> (pc \notin {"ack", "result"})

\* C23: an add_base_file or add_submission_file call without glob ends in
\* FileNotFoundError when the path does not exist and in ValueError when it
\* exists and is no regular file, and then every list of the configuration is
\* what it was; a call that is accepted appends the resolved path to the list
\* it names and changes nothing else.
C23_AddFileChecks ==
    [][ adds' # adds =>
            LET a == adds'[Len(adds')]
                exists == a.file \in present \cup {DirPath}
                isfile == a.file \in present
            IN  /\ adds' = Append(adds, a)
                /\ ~a.glob =>
                      /\ ~exists => a.raised = "FileNotFoundError"
                      /\ (exists /\ ~isfile) => a.raised = "ValueError"
                      /\ isfile => a.raised = "none"
                      /\ a.raised # "none" => given' = given
                      /\ (a.raised = "none" /\ a.fn = "add_base_file") =>
                            given' = [given EXCEPT !.base_files =
                                         Append(@, Cwd \o a.file)]
                      /\ (a.raised = "none" /\ a.fn = "add_submission_file") =>
                            given' = [given EXCEPT !.submission_files =
                                         Append(@, Cwd \o a.file)] ]_vars

\* a missing path and a directory were refused and a submission file was
\* accepted: it alone is in the lists
C23_Witness ==
    /\ \E i \in 1..Len(adds) : adds[i].raised = "FileNotFoundError"
    /\ \E i \in 1..Len(adds) : adds[i].raised = "ValueError"
    /\ \E i \in 1..Len(adds) :
          /\ adds[i].fn = "add_submission_file"
          /\ ~adds[i].glob
          /\ adds[i].raised = "none"
    /\ given.base_files = <<>>
    /\ Len(given.submission_files) = 1
    /\ given.base_globs = <<>>
    /\ given.submission_globs = <<>>

\* C24: what submission_files() yields is ordered by kind and not by the order
\* of the add_submission_file calls: first the matches of the glob entries,
\* globs in the order they were added, then the individually added files in
\* the order they were added; base_files() likewise with the add_base_file
\* calls.
C24_GlobsBeforeFiles ==
    \A i \in 1..Len(calls) :
        LET add == IF calls[i].fn = "base_files" THEN "add_base_file"
                   ELSE "add_submission_file"
            before == SelectSeq(SubSeq(adds, 1, calls[i].at),
                                LAMBDA a : a.fn = add /\ a.raised = "none")
            globs == SelectSeq(before, LAMBDA a : a.glob)
            single == SelectSeq(before, LAMBDA a : ~a.glob)
            Matches(a) ==
                SelectSeq([n \in 1..MaxSubmissions |->
                              IF a.file = "s*.c" THEN SubPath(n)
                              ELSE Cwd \o SubPath(n)],
                          LAMBDA p : p \in present \/ \E q \in present : p = Cwd \o q)
            Flat[n \in 0..Len(globs)] ==
                IF n = 0 THEN <<>> ELSE Flat[n - 1] \o Matches(globs[n])
        IN  calls[i].files =
                Flat[Len(globs)] \o [n \in 1..Len(single) |-> Cwd \o single[n].file]

\* a file was added, a glob after it, and the listing taken then starts with
\* the glob's matches and ends with the file added first
C24_Witness ==
    \E i \in 1..Len(calls) :
        /\ calls[i].fn = "submission_files"
        /\ calls[i].at = 2
        /\ adds[1] = AddedTo("add_submission_file", SubPath(1), FALSE, "none")
        /\ adds[2].fn = "add_submission_file"
        /\ adds[2].glob
        /\ Len(calls[i].files) = MaxSubmissions + 1
        /\ calls[i].files[Len(calls[i].files)] = Cwd \o SubPath(1)
        /\ calls[i].files[1] \in {SubPath(1), Cwd \o SubPath(1)}

====
